---- MODULE Spec2Model ----
(***************************************************************************)
(* Trading agents of figgie-auto: the reactive agent (EventDrivenPlayer,   *)
(* src/src/player/event_driven.rs) and the polling agent (GenericPlayer,   *)
(* src/src/player/generic.rs), each fed by a broadcast event bus and       *)
(* writing orders to a bounded egress channel.                             *)
(*                                                                         *)
(* One agent is modelled at a time: Init picks the variant and the name.   *)
(* Option<T> is a sequence of length 0 (None) or 1 (Some).                 *)
(***************************************************************************)
EXTENDS Integers, Sequences, FiniteSets, TLC

VARIABLES
    variant,        \* "reactive" (EventDrivenPlayer) or "polling" (GenericPlayer)
    name,           \* self.name
    trading,        \* self.trading: the gate (AtomicBool)
    inventory,      \* self.inventory (polling: the shared cell)
    trades,         \* self.trades (polling: the shared cell)
    elapsed,        \* self.timer.elapsed(), in ticks of TickSecs seconds
    books,          \* polling: the four book cells, keyed by card
    held,           \* polling: the cell locks the listener task holds
    lpc,            \* position of the event loop (reactive loop / listener task)
    ev,             \* the event the event loop is processing (Option)
    dpc,            \* polling: position of the decision loop of start()
    trading_flag,   \* the gate value the current iteration loaded
    snap,           \* the values the current iteration decides on
    pending,        \* send_order calls of the current iteration still to run
    chan,           \* the order egress channel (kanal, bounded)
    bus,            \* the subscription's buffer of the broadcast channel
    lagged,         \* the subscription lost events the receiver has not been told of
    busClosed,      \* every Sender of the broadcast channel is gone
    sIn,            \* StrategySpec: the arguments of one strategy call
    sOut            \* StrategySpec: the orders that call enqueued (Option)

vars == <<variant, name, trading, inventory, trades, elapsed, books, held, lpc, ev,
          dpc, trading_flag, snap, pending, chan, bus, lagged, busClosed, sIn, sOut>>

----------------------------------------------------------------------------
(* Bounds of the model *)

MaxInv == 4         \* no Trade is published that would raise a holding above it
MaxTrades == 1      \* Trades published over a run
ChanCap == 1        \* capacity of the order egress channel
BusCap == 1         \* capacity of the subscription's buffer
MaxTicks == 1       \* the clock stops after this many ticks past a timer reset
TickSecs == 250     \* seconds per tick of the clock

----------------------------------------------------------------------------
(* Data *)

CardSeq == <<"Spade", "Club", "Diamond", "Heart">>
Cards == {CardSeq[i] : i \in 1..4}
Other == "Other"
NoPlayer == "None"

Quote(price, player_name) == [price |-> price, player_name |-> player_name]
MkBook(bid, ask, last_trade) == [bid |-> bid, ask |-> ask, last_trade |-> last_trade]

\* Book::new() and Inventory::new() are declared in the parent module
BookNew == MkBook(Quote(0, NoPlayer), Quote(0, NoPlayer), <<>>)
InventoryNew == [c \in Cards |-> 0]

\* inventory.change(card, add)
Change(inv, card, add) ==
    [inv EXCEPT ![card] = IF add THEN @ + 1 ELSE @ - 1]

\* 240 - elapsed as u64: a negative difference panics (overflow checks on) or
\* wraps to 2^64 + d; WrapBase stands for 2^64 within TLC's integers
RoundSecs == 240
WrapBase == 1000000
SecondsLeftOutcomes(elapsedSecs) ==
    IF elapsedSecs <= RoundSecs
    THEN {[panic |-> FALSE, seconds_left |-> RoundSecs - elapsedSecs]}
    ELSE {[panic |-> TRUE, seconds_left |-> 0],
          [panic |-> FALSE, seconds_left |-> WrapBase + RoundSecs - elapsedSecs]}

----------------------------------------------------------------------------
(* send_order and the strategies.  A strategy is the sequence of send_order  *)
(* calls it makes, each [price, direction]; send_order keeps a call or not.  *)

Call(price, direction) == [price |-> price, direction |-> direction]

\* send_order: the `trade` flag after the match on direction
SendOrderTrade_loose(self_name, price, direction, book) ==
    IF direction = "Buy"
    THEN book.bid.price <= price /\ book.bid.player_name # self_name
    ELSE book.ask.price >= price /\ book.ask.player_name # self_name
SendOrderTrade(self_name, price, direction, book) ==
    IF direction = "Buy"
    THEN book.bid.price < price /\ book.bid.player_name # self_name
    ELSE book.ask.price > price /\ book.ask.player_name # self_name

\* send_order: the Order built when `trade` is set
MkOrder(self_name, price, direction, card) ==
    [player_name |-> self_name, price |-> price, direction |-> direction, card |-> card]

\* the orders a sequence of send_order calls on one book hands to the channel
RECURSIVE OrdersOf(_, _, _, _)
OrdersOf(self_name, calls, card, book) ==
    IF calls = <<>> THEN <<>>
    ELSE LET c == Head(calls)
             rest == OrdersOf(self_name, Tail(calls), card, book)
         IN IF SendOrderTrade(self_name, c.price, c.direction, book)
            THEN <<MkOrder(self_name, c.price, c.direction, card)>> \o rest
            ELSE rest

GetMaxPriceFromSeconds(seconds_left) ==
    IF seconds_left < 20 THEN <<0, 0>>
    ELSE IF seconds_left < 40 THEN <<2, 3>>
    ELSE IF seconds_left < 60 THEN <<3, 4>>
    ELSE IF seconds_left < 120 THEN <<4, 6>>
    ELSE <<5, 8>>

PickOff(seconds_left, inv, book) ==
    LET open_price == GetMaxPriceFromSeconds(seconds_left)[1]
        close_price == GetMaxPriceFromSeconds(seconds_left)[2]
    IN (IF inv <= 2 /\ book.ask.price < open_price
        THEN <<Call(book.ask.price, "Buy")>> ELSE <<>>)
       \o (IF inv > 0 /\ book.bid.price >= close_price
           THEN <<Call(book.bid.price, "Sell")>> ELSE <<>>)
       \o (IF inv > 0 /\ book.ask.price > 5
           THEN <<Call(book.ask.price - 1, "Sell")>> ELSE <<>>)

SellInventory_late(seconds_left, inv, book) ==
    IF inv > 0 /\ book.ask.price > 4
    THEN <<Call(book.ask.price - 1, "Sell")>> ELSE <<>>
SellInventory(seconds_left, inv, book) ==
    IF inv > 0
    THEN IF seconds_left > 30
         THEN IF book.ask.price > 7
              THEN <<Call(book.ask.price - 1, "Sell")>> ELSE <<>>
         ELSE IF book.ask.price > 4
              THEN <<Call(book.ask.price - 1, "Sell")>> ELSE <<>>
    ELSE <<>>

\* (x as f32 * 1.25).round() and (x as f32 * 0.75).round(): halves round away from 0
RoundFiveQuarters(x) == (10 * x + 4) \div 8
RoundThreeQuarters(x) == (6 * x + 4) \div 8

ProvideSpread(seconds_left, inv, book) ==
    (IF inv > 0
     THEN IF book.last_trade # <<>>
          THEN (IF book.last_trade[1] > 10
                THEN <<Call(RoundFiveQuarters(book.last_trade[1]), "Sell")>> ELSE <<>>)
               \o (IF book.ask.price > 10 THEN <<Call(10, "Sell")>> ELSE <<>>)
          ELSE IF book.ask.price > 7
               THEN <<Call(book.ask.price - 1, "Sell")>> ELSE <<>>
     ELSE <<>>)
    \o (IF seconds_left > 20
        THEN IF book.last_trade # <<>>
             THEN (IF book.last_trade[1] < 4 THEN <<Call(4, "Buy")>> ELSE <<>>)
                  \o (IF RoundThreeQuarters(book.last_trade[1]) < 8
                      THEN <<Call(RoundThreeQuarters(book.last_trade[1]), "Buy")>>
                      ELSE <<>>)
             ELSE <<Call(book.bid.price + 1, "Buy")>>
        ELSE <<>>)

\* noisy_trader on the card it drew: is_buy and price are its random draws
NoisyTrader(current_inventory, is_buy, price) ==
    IF is_buy
    THEN IF current_inventory < 4 THEN <<Call(price, "Sell")>> ELSE <<>>
    ELSE IF current_inventory > 0 THEN <<Call(price, "Sell")>> ELSE <<>>

----------------------------------------------------------------------------
(* Events of the bus and the inputs the environment draws them from *)

UpdateEv(trade, bks) == [type |-> "Update", trade |-> trade, books |-> bks]
\* entry is players_inventory.get(&name)
DealCardsEv(entry) == [type |-> "DealCards", entry |-> entry]
EndRoundEv == [type |-> "EndRound"]

TradeCards == {"Spade"}
TradeSet(n) ==
    {[buyer |-> b, seller |-> s, card |-> c, price |-> 5] :
        b \in {n, Other}, s \in {n, Other}, c \in TradeCards}

\* two market snapshots: they differ in every field of the spade book
SnapshotA(n) ==
    [c \in Cards |->
        IF c = "Spade" THEN MkBook(Quote(2, Other), Quote(8, Other), <<>>) ELSE BookNew]
SnapshotB(n) ==
    [c \in Cards |->
        IF c = "Spade" THEN MkBook(Quote(8, n), Quote(10, Other), <<12>>) ELSE BookNew]
SnapshotSet(n) == {SnapshotA(n), SnapshotB(n)}

DealSet ==
    {[c \in Cards |-> IF c = "Spade" THEN 3 ELSE IF c = "Heart" THEN 1 ELSE 0],
     [c \in Cards |-> IF c = "Club" THEN 2 ELSE 0]}

EventKinds == {"Update", "DealCards", "EndRound"}
\* an Update carries a snapshot, and with the first snapshot possibly a Trade
UpdateSet(n) ==
    {UpdateEv(<<>>, b) : b \in SnapshotSet(n)}
    \cup {UpdateEv(<<t>>, SnapshotA(n)) : t \in TradeSet(n)}
EventSet(n) ==
    UpdateSet(n)
    \cup {DealCardsEv(e) : e \in {<<>>} \cup {<<d>> : d \in DealSet}}
    \cup {EndRoundEv}

\* the agents: the reactive loop runs pick_off for PickOff, the polling loop
\* sell_inventory for Seller (noisy_trader and provide_spread: StrategySpec)
AgentSet == {<<"reactive", "PickOff">>, <<"polling", "Seller">>}

\* the draws of noisy_trader: gen_range(1..=4), random::<bool>(), gen_range(1..15)
NoisyPrices == {1, 7, 14}
NoisyDraws(n) ==
    IF n = "Noisy"
    THEN {[r |-> r, is_buy |-> b, price |-> p] :
            r \in 1..4, b \in BOOLEAN, p \in NoisyPrices}
    ELSE {[r |-> 1, is_buy |-> FALSE, price |-> 1]}

----------------------------------------------------------------------------
(* State after construction *)

SnapNew == [seconds_left |-> 0, inventory |-> InventoryNew,
            books |-> [c \in Cards |-> BookNew]]

AgentInit ==
    /\ trading = FALSE
    /\ inventory = InventoryNew
    /\ trades = <<>>
    /\ elapsed = 0
    /\ books = [c \in Cards |-> BookNew]
    /\ held = {}
    /\ lpc = "recv"
    /\ ev = <<>>
    /\ trading_flag = FALSE
    /\ snap = SnapNew
    /\ pending = <<>>
    /\ chan = <<>>
    /\ bus = <<>>
    /\ lagged = FALSE
    /\ busClosed = FALSE

Init ==
    /\ \E a \in AgentSet :
        /\ variant = a[1]
        /\ name = a[2]
        /\ dpc = IF a[1] = "polling" THEN "gate" ELSE "none"
    /\ AgentInit
    /\ sIn = <<>>
    /\ sOut = <<>>

agentVars == <<trading, inventory, trades, elapsed, books, held, lpc, ev,
               dpc, trading_flag, snap, pending>>
fixedVars == <<variant, name, sIn, sOut>>

----------------------------------------------------------------------------
(* Environment: the round driver and matching engine publish events, the    *)
(* matching engine takes orders, time passes.                               *)

\* a Trade names the agent only if it keeps the holdings within 0..MaxInv
TradeAllowed(t) ==
    /\ Len(trades) < MaxTrades
    /\ t.seller = name => inventory[t.card] > 0
    /\ t.buyer = name => inventory[t.card] < MaxInv

\* the events a receive can return for a buffered event of kind k: the buffer is
\* kept by kind, and the payload is drawn when the event is received
Received(k) ==
    {e \in EventSet(name) :
        /\ e.type = k
        /\ (e.type = "Update" /\ e.trade # <<>>) => TradeAllowed(e.trade[1])}

\* the event loop panicked: its Receiver is dropped with the task
Panicked(pc) == pc \in {"panic_lagged", "panic_closed", "panic_no_inventory",
                        "panic_underflow"}

\* broadcast send to the agent's Receiver: a full buffer loses its oldest event
Publish ==
    /\ ~busClosed
    /\ ~Panicked(lpc)
    /\ \E k \in EventKinds :
        IF Len(bus) < BusCap
        THEN bus' = Append(bus, k) /\ lagged' = lagged
        ELSE bus' = Append(Tail(bus), k) /\ lagged' = TRUE
    /\ UNCHANGED <<agentVars, fixedVars, chan, busClosed>>

CloseBus ==
    /\ ~busClosed
    /\ busClosed' = TRUE
    /\ UNCHANGED <<agentVars, fixedVars, chan, bus, lagged>>

Drain ==
    /\ chan # <<>>
    /\ chan' = Tail(chan)
    /\ UNCHANGED <<agentVars, fixedVars, bus, lagged, busClosed>>

Tick ==
    /\ elapsed < MaxTicks
    /\ elapsed' = elapsed + 1
    /\ UNCHANGED <<variant, name, trading, inventory, trades, books, held, lpc, ev, dpc,
                   trading_flag, snap, pending, chan, bus, lagged, busClosed, sIn, sOut>>

----------------------------------------------------------------------------
(* Pieces shared by the two event loops *)

\* the gate check at the top of an iteration
BacksOff_never(flag) == FALSE
BacksOff(flag) == ~flag

\* if trade.buyer == name { change(card, true) } else if trade.seller == name { .. false }
ApplyTrade(inv, t, self_name) ==
    IF t.buyer = self_name THEN Change(inv, t.card, TRUE)
    ELSE IF t.seller = self_name THEN Change(inv, t.card, FALSE)
    ELSE inv

\* the value DealCards stores as the inventory
DealtInventory_added(entry) == [c \in Cards |-> inventory[c] + entry[1][c]]
DealtInventory(entry) == entry[1]

\* a strategy layer run twice on the spade book of one Update
StrategyOrders_twice(self_name, calls, bks) ==
    OrdersOf(self_name, calls["Spade"], "Spade", bks["Spade"])
    \o OrdersOf(self_name, calls["Spade"], "Spade", bks["Spade"])
    \o OrdersOf(self_name, calls["Club"], "Club", bks["Club"])
    \o OrdersOf(self_name, calls["Diamond"], "Diamond", bks["Diamond"])
    \o OrdersOf(self_name, calls["Heart"], "Heart", bks["Heart"])

\* the orders of one strategy run over the four cards, spades first
StrategyOrders(self_name, calls, bks) ==
    OrdersOf(self_name, calls["Spade"], "Spade", bks["Spade"])
    \o OrdersOf(self_name, calls["Club"], "Club", bks["Club"])
    \o OrdersOf(self_name, calls["Diamond"], "Diamond", bks["Diamond"])
    \o OrdersOf(self_name, calls["Heart"], "Heart", bks["Heart"])

\* order_sender.send(order).await: completes once the channel has room
SendReady == Len(chan) < ChanCap

busVars == <<bus, lagged, busClosed>>

----------------------------------------------------------------------------
(* EventDrivenPlayer::start *)

Reactive == variant = "reactive"

\* recv() returns Err(Lagged): the else branch prints and the loop goes on
R_RecvLagged ==
    /\ Reactive /\ lpc = "recv" /\ lagged
    /\ lagged' = FALSE
    /\ UNCHANGED <<agentVars, fixedVars, chan, bus, busClosed>>

\* recv() returns Err(Closed): the else branch prints and the loop goes on
R_RecvClosed ==
    /\ Reactive /\ lpc = "recv" /\ ~lagged /\ bus = <<>> /\ busClosed
    /\ UNCHANGED vars

\* recv() returns the oldest buffered event
R_Recv == Reactive /\ lpc = "recv" /\ ~lagged /\ bus # <<>>

\* the event leaves the buffer; a panic drops the Receiver
R_Taken ==
    /\ bus' = IF Panicked(lpc') THEN <<>> ELSE Tail(bus)
    /\ UNCHANGED <<lagged, busClosed, fixedVars, chan, books, held, dpc>>

\* Event::Update with the gate read as Idle: sleep, then the next event; the
\* update stays in scope, untouched, over the sleep
R_UpdateIdle ==
    /\ R_Recv /\ Head(bus) = "Update"
    /\ BacksOff(trading)
    /\ trading_flag' = trading
    /\ lpc' = "idle_sleep"
    /\ \E e \in Received("Update") : ev' = <<e>>
    /\ UNCHANGED <<trading, inventory, trades, elapsed, snap, pending>>
    /\ R_Taken

R_IdleSleep ==
    /\ Reactive /\ lpc = "idle_sleep"
    /\ lpc' = "recv"
    /\ trading_flag' = FALSE
    /\ ev' = <<>>
    /\ UNCHANGED <<variant, name, trading, inventory, trades, elapsed, books, held,
                   dpc, snap, pending, chan, bus, lagged, busClosed, sIn, sOut>>

\* Event::Update with the gate read as Trading: the trade, the time left, then
\* pick_off per card up to its first send
R_UpdateTrading ==
    /\ R_Recv /\ Head(bus) = "Update"
    /\ ~BacksOff(trading)
    /\ \E e \in Received("Update") :
       LET inv == IF e.trade # <<>> THEN ApplyTrade(inventory, e.trade[1], name)
                  ELSE inventory
       IN /\ trades' = IF e.trade # <<>> THEN Append(trades, e.trade[1]) ELSE trades
          /\ inventory' = inv
          /\ \E o \in SecondsLeftOutcomes(elapsed * TickSecs) :
              LET orders ==
                    IF name = "PickOff"
                    THEN StrategyOrders(name,
                            [c \in Cards |-> PickOff(o.seconds_left, inv[c], e.books[c])],
                            e.books)
                    ELSE <<>>
              IN IF o.panic
                 THEN /\ lpc' = "panic_underflow"
                      /\ trading_flag' = trading
                      /\ UNCHANGED <<ev, pending>>
                 ELSE IF orders = <<>>
                 THEN /\ lpc' = "recv"
                      /\ trading_flag' = FALSE
                      /\ UNCHANGED <<ev, pending>>
                 ELSE /\ lpc' = "send"
                      /\ trading_flag' = trading
                      /\ ev' = <<e>>
                      /\ pending' = orders
    /\ UNCHANGED <<trading, elapsed, snap>>
    /\ R_Taken

\* Event::DealCards: get(&self.name).unwrap() panics without an entry
R_DealCards ==
    /\ R_Recv /\ Head(bus) = "DealCards"
    /\ \E e \in Received("DealCards") :
       IF e.entry = <<>>
       THEN /\ lpc' = "panic_no_inventory"
            /\ UNCHANGED <<inventory, trading, elapsed>>
       ELSE /\ inventory' = DealtInventory(e.entry)
            /\ trading' = TRUE
            /\ elapsed' = 0
            /\ lpc' = "recv"
    /\ UNCHANGED <<trades, trading_flag, snap, pending, ev>>
    /\ R_Taken

R_EndRound ==
    /\ R_Recv /\ Head(bus) = "EndRound"
    /\ trading' = FALSE
    /\ UNCHANGED <<inventory, trades, elapsed, lpc, trading_flag, snap, pending, ev>>
    /\ R_Taken

\* send_order's send of the next order of this event's pick_off calls
R_Send ==
    /\ Reactive /\ lpc = "send"
    /\ SendReady
    /\ chan' = Append(chan, Head(pending))
    /\ pending' = Tail(pending)
    /\ IF pending' = <<>>
       THEN lpc' = "recv" /\ trading_flag' = FALSE /\ ev' = <<>>
       ELSE UNCHANGED <<lpc, trading_flag, ev>>
    /\ UNCHANGED <<variant, name, trading, inventory, trades, elapsed, books, held,
                   dpc, snap, bus, lagged, busClosed, sIn, sOut>>

----------------------------------------------------------------------------
(* GenericPlayer::listen_to_events: the spawned listener task *)

Polling == variant = "polling"

\* recv().await.unwrap() on Err(Lagged) panics: the task ends
L_RecvLagged ==
    /\ Polling /\ lpc = "recv" /\ lagged
    /\ lagged' = FALSE
    /\ bus' = <<>>
    /\ lpc' = "panic_lagged"
    /\ UNCHANGED <<variant, name, trading, inventory, trades, elapsed, books, held, ev,
                   dpc, trading_flag, snap, pending, chan, busClosed, sIn, sOut>>

\* recv().await.unwrap() on Err(Closed) panics: the task ends
L_RecvClosed ==
    /\ Polling /\ lpc = "recv" /\ ~lagged /\ bus = <<>> /\ busClosed
    /\ lpc' = "panic_closed"
    /\ UNCHANGED <<variant, name, trading, inventory, trades, elapsed, books, held, ev,
                   dpc, trading_flag, snap, pending, chan, bus, lagged, busClosed, sIn, sOut>>

\* recv() returns the oldest buffered event.  A step of the listener runs on to
\* its first write under a lock: nothing shared is touched between recv's return
\* and that lock, and the decision loop holds no lock across an await of its own.
L_Recv == Polling /\ lpc = "recv" /\ ~lagged /\ bus # <<>>

\* the event leaves the buffer; a panic drops the Receiver
L_Taken ==
    /\ bus' = IF Panicked(lpc') THEN <<>> ELSE Tail(bus)
    /\ UNCHANGED <<variant, name, dpc, trading_flag, snap, pending, chan, lagged,
                   busClosed, sIn, sOut>>

\* Event::Update with a trade: trades.lock().await, push; the guard lives to the
\* end of the if-block
L_UpdateTrades ==
    /\ L_Recv /\ Head(bus) = "Update"
    /\ \E e \in Received("Update") :
        /\ e.trade # <<>>
        /\ "trades" \notin held
        /\ trades' = Append(trades, e.trade[1])
        /\ held' = held \cup {"trades"}
        /\ ev' = <<e>>
        /\ lpc' = "update_inventory"
    /\ UNCHANGED <<trading, inventory, elapsed, books>>
    /\ L_Taken

\* inventory.lock().await, change; both guards drop at the end of the if-block
L_UpdateInventory ==
    /\ Polling /\ lpc = "update_inventory"
    /\ "inventory" \notin held
    /\ inventory' = ApplyTrade(inventory, ev[1].trade[1], name)
    /\ held' = held \ {"trades", "inventory"}
    /\ lpc' = "update_Spade"
    /\ UNCHANGED <<variant, name, trading, trades, elapsed, books, ev, dpc,
                   trading_flag, snap, pending, chan, bus, lagged, busClosed, sIn, sOut>>

\* <card>_book.lock().await, *lock = update.<card>, for the event e; the four
\* guards drop together at the end of the match arm
WriteBook_bid(i, e) ==
    /\ CardSeq[i] \notin held
    /\ books' = [books EXCEPT ![CardSeq[i]].bid = e.books[CardSeq[i]].bid]
    /\ IF i < 4
       THEN /\ held' = held \cup {CardSeq[i]}
            /\ lpc' = "update_" \o CardSeq[i + 1]
            /\ ev' = <<e>>
       ELSE /\ held' = held \ Cards
            /\ lpc' = "recv"
            /\ ev' = <<>>
WriteBook(i, e) ==
    /\ CardSeq[i] \notin held
    /\ books' = [books EXCEPT ![CardSeq[i]] = e.books[CardSeq[i]]]
    /\ IF i < 4
       THEN /\ held' = held \cup {CardSeq[i]}
            /\ lpc' = "update_" \o CardSeq[i + 1]
            /\ ev' = <<e>>
       ELSE /\ held' = held \ Cards
            /\ lpc' = "recv"
            /\ ev' = <<>>

\* Event::Update without a trade: the spades book is the first cell locked
L_Update ==
    /\ L_Recv /\ Head(bus) = "Update"
    /\ \E e \in Received("Update") :
        /\ e.trade = <<>>
        /\ WriteBook(1, e)
    /\ UNCHANGED <<trading, inventory, trades, elapsed>>
    /\ L_Taken

L_UpdateBook(i) ==
    /\ Polling /\ lpc = "update_" \o CardSeq[i]
    /\ WriteBook(i, ev[1])
    /\ UNCHANGED <<variant, name, trading, inventory, trades, elapsed, dpc,
                   trading_flag, snap, pending, chan, bus, lagged, busClosed, sIn, sOut>>

\* Event::DealCards: inventory.lock().await, *lock = get(&name).unwrap().clone(),
\* trading.store(true); the unwrap panics without an entry and the unwinding drops
\* the guard
L_DealCards ==
    /\ L_Recv /\ Head(bus) = "DealCards"
    /\ \E e \in Received("DealCards") :
        /\ "inventory" \notin held
        /\ IF e.entry = <<>>
           THEN /\ lpc' = "panic_no_inventory"
                /\ UNCHANGED <<inventory, trading, held, ev>>
           ELSE /\ inventory' = DealtInventory(e.entry)
                /\ trading' = TRUE
                /\ held' = held \cup {"inventory"}
                /\ ev' = <<e>>
                /\ lpc' = "deal_timer"
    /\ UNCHANGED <<trades, elapsed, books>>
    /\ L_Taken

\* Event::EndRound: trading.store(false)
L_EndRound ==
    /\ L_Recv /\ Head(bus) = "EndRound"
    /\ trading' = FALSE
    /\ UNCHANGED <<inventory, trades, elapsed, books, held, lpc, ev>>
    /\ L_Taken

\* timer.lock().await, *lock = Instant::now(); both guards drop at the end of the arm
L_DealTimer ==
    /\ Polling /\ lpc = "deal_timer"
    /\ "timer" \notin held
    /\ elapsed' = 0
    /\ held' = held \ {"inventory", "timer"}
    /\ lpc' = "recv"
    /\ ev' = <<>>
    /\ UNCHANGED <<variant, name, trading, inventory, trades, books, dpc,
                   trading_flag, snap, pending, chan, bus, lagged, busClosed, sIn, sOut>>

----------------------------------------------------------------------------
(* GenericPlayer::start: the decision loop *)

\* trading.load(Acquire) and the branch on it
D_Gate ==
    /\ Polling /\ dpc = "gate"
    /\ trading_flag' = trading
    /\ dpc' = IF BacksOff(trading) THEN "idle_sleep" ELSE "timer"
    /\ UNCHANGED <<variant, name, trading, inventory, trades, elapsed, books, held, lpc,
                   ev, snap, pending, chan, bus, lagged, busClosed, sIn, sOut>>

\* sleep(1 s); continue
D_IdleSleep ==
    /\ Polling /\ dpc = "idle_sleep"
    /\ dpc' = "gate"
    /\ trading_flag' = FALSE
    /\ UNCHANGED <<variant, name, trading, inventory, trades, elapsed, books, held, lpc,
                   ev, snap, pending, chan, bus, lagged, busClosed, sIn, sOut>>

\* 240 - self.timer.lock().await.elapsed().as_secs()
D_Timer ==
    /\ Polling /\ dpc = "timer"
    /\ "timer" \notin held
    /\ \E o \in SecondsLeftOutcomes(elapsed * TickSecs) :
        IF o.panic
        THEN dpc' = "panic_underflow" /\ UNCHANGED snap
        ELSE dpc' = "inventory" /\ snap' = [snap EXCEPT !.seconds_left = o.seconds_left]
    /\ UNCHANGED <<variant, name, trading, inventory, trades, elapsed, books, held, lpc,
                   ev, trading_flag, pending, chan, bus, lagged, busClosed, sIn, sOut>>

\* an inventory guard bound to a local that outlives the iteration
D_Inventory_keeps ==
    /\ Polling /\ dpc = "inventory"
    /\ "inventory" \notin held
    /\ snap' = [snap EXCEPT !.inventory = inventory]
    /\ held' = held \cup {"inventory"}
    /\ dpc' = "Spade"
    /\ UNCHANGED <<variant, name, trading, inventory, trades, elapsed, books, lpc,
                   ev, trading_flag, pending, chan, bus, lagged, busClosed, sIn, sOut>>

\* self.inventory.lock().await.clone()
D_Inventory ==
    /\ Polling /\ dpc = "inventory"
    /\ "inventory" \notin held
    /\ snap' = [snap EXCEPT !.inventory = inventory]
    /\ dpc' = "Spade"
    /\ UNCHANGED <<variant, name, trading, inventory, trades, elapsed, books, held, lpc,
                   ev, trading_flag, pending, chan, bus, lagged, busClosed, sIn, sOut>>

\* the send_order calls of the match on self.name, on the copied values
DecisionCalls(self_name, s, d) ==
    [c \in Cards |->
        IF self_name = "Noisy"
        THEN IF c = CardSeq[d.r]
             THEN NoisyTrader(s.inventory[c], d.is_buy, d.price) ELSE <<>>
        ELSE IF self_name = "Seller"
        THEN SellInventory(s.seconds_left, s.inventory[c], s.books[c])
        ELSE IF self_name = "Spread"
        THEN ProvideSpread(s.seconds_left, s.inventory[c], s.books[c])
        ELSE <<>>]

\* self.<card>_book.lock().await.clone(); after the fourth copy the strategy runs
\* up to its first send
D_Book(i) ==
    /\ Polling /\ dpc = CardSeq[i]
    /\ CardSeq[i] \notin held
    /\ LET s == [snap EXCEPT !.books[CardSeq[i]] = books[CardSeq[i]]]
       IN IF i < 4
          THEN /\ snap' = s
               /\ dpc' = CardSeq[i + 1]
               /\ UNCHANGED pending
          ELSE \E d \in NoisyDraws(name) :
                 /\ snap' = SnapNew
                 /\ pending' = StrategyOrders(name, DecisionCalls(name, s, d), s.books)
                 /\ dpc' = IF pending' = <<>> THEN "sleep" ELSE "send"
    /\ UNCHANGED <<variant, name, trading, inventory, trades, elapsed, books, held, lpc,
                   ev, trading_flag, chan, bus, lagged, busClosed, sIn, sOut>>

\* send_order's send of the next order of this iteration
D_Send ==
    /\ Polling /\ dpc = "send"
    /\ SendReady
    /\ chan' = Append(chan, Head(pending))
    /\ pending' = Tail(pending)
    /\ dpc' = IF pending' = <<>> THEN "sleep" ELSE "send"
    /\ UNCHANGED <<variant, name, trading, inventory, trades, elapsed, books, held, lpc,
                   ev, trading_flag, snap, bus, lagged, busClosed, sIn, sOut>>

\* sleep(gen_range(lower_frequency..higher_frequency) ms); the next iteration
D_Sleep ==
    /\ Polling /\ dpc = "sleep"
    /\ dpc' = "gate"
    /\ trading_flag' = FALSE
    /\ UNCHANGED <<variant, name, trading, inventory, trades, elapsed, books, held, lpc,
                   ev, snap, pending, chan, bus, lagged, busClosed, sIn, sOut>>

----------------------------------------------------------------------------
(* Specifications *)

Env == Publish \/ Drain \/ Tick

ReactiveLoop ==
    \/ R_RecvLagged \/ R_UpdateIdle \/ R_IdleSleep
    \/ R_UpdateTrading \/ R_DealCards \/ R_EndRound \/ R_Send

Listener ==
    \/ L_RecvLagged \/ L_UpdateTrades \/ L_UpdateInventory \/ L_Update
    \/ (\E i \in 1..4 : L_UpdateBook(i)) \/ L_DealCards \/ L_DealTimer \/ L_EndRound

DecisionLoop ==
    \/ D_Gate \/ D_IdleSleep \/ D_Timer \/ D_Inventory
    \/ (\E i \in 1..4 : D_Book(i)) \/ D_Send \/ D_Sleep

\* the agent holds a Sender of the bus itself (self.event_receiver), so the bus
\* does not close while the agent runs
Next == Env \/ ReactiveLoop \/ Listener \/ DecisionLoop

Spec == Init /\ [][Next]_vars

\* recv() on a bus whose other Senders are gone.  The agent keeps a Sender of its
\* own (self.event_receiver), so the reactive loop's recv() pends, and on
\* Err(Closed) its else branch prints and loops: either way it stays at recv.
ClosingNext == Next \/ CloseBus \/ R_RecvClosed \/ L_RecvClosed

ClosingSpec == Init /\ [][ClosingNext]_vars

----------------------------------------------------------------------------
(* The strategies as functions: one strategy runs once on one spade book.   *)

StrategyNames == {"PickOff", "Seller", "Spread", "Noisy"}
StrategySeconds == {10, 25, 35, 50, 100, 200}
StrategyPrices == {2, 4, 5, 6, 8, 10, 11}
StrategyLast == {<<>>, <<3>>, <<9>>, <<12>>}

\* a side of a book is empty, as in Book::new(), or a quote of the agent or of
\* another player; the books are not crossed
StrategyQuotes(n) ==
    {Quote(0, NoPlayer)} \cup {Quote(p, o) : p \in StrategyPrices, o \in {n, Other}}
StrategyBooks(n) ==
    UNION {{MkBook(bid, ask, lt) :
              ask \in {q \in StrategyQuotes(n) : q.price = 0 \/ bid.price < q.price},
              lt \in StrategyLast} :
           bid \in StrategyQuotes(n)}

\* the card drawn, and the direction and price of a noisy_trader run or of a
\* bare send_order call
StrategyDraws ==
    {[r |-> rp[1], is_buy |-> k, price |-> rp[2]] :
        rp \in {<<1, 7>>, <<3, 4>>}, k \in BOOLEAN}

StrategyInput(n, sl, i, b, d) ==
    [name |-> n, seconds_left |-> sl, inv |-> i, book |-> b, d |-> d]

StrategyInit ==
    /\ \E n \in StrategyNames, sl \in StrategySeconds, i \in 0..MaxInv :
       \E b \in StrategyBooks(n), d \in StrategyDraws :
        /\ sIn = <<StrategyInput(n, sl, i, b, d)>>
        /\ name = n
    /\ sOut = <<>>
    /\ variant = "strategy"
    /\ dpc = "none"
    /\ AgentInit

\* what ran, the send_order calls it made on the book of sIn for the card
\* drawn, and the orders send_order made of them
Applies(n) == sIn # <<>> /\ sOut = <<>> /\ sIn[1].name = n
StrategyCard == CardSeq[sIn[1].d.r]
Ran(what, calls) ==
    /\ sOut' = <<OrdersOf(sIn[1].name, calls, StrategyCard, sIn[1].book), calls, what>>
    /\ UNCHANGED <<agentVars, variant, name, sIn, chan, bus, lagged, busClosed>>

S_PickOff ==
    /\ Applies("PickOff")
    /\ Ran("pick_off", PickOff(sIn[1].seconds_left, sIn[1].inv, sIn[1].book))
S_SellInventory ==
    /\ Applies("Seller")
    /\ Ran("sell_inventory",
           SellInventory(sIn[1].seconds_left, sIn[1].inv, sIn[1].book))
S_ProvideSpread ==
    /\ Applies("Spread")
    /\ Ran("provide_spread",
           ProvideSpread(sIn[1].seconds_left, sIn[1].inv, sIn[1].book))
S_NoisyTrader ==
    /\ Applies("Noisy")
    /\ Ran("noisy_trader", NoisyTrader(sIn[1].inv, sIn[1].d.is_buy, sIn[1].d.price))

\* one send_order call of any agent, with the price and direction drawn
S_SendOrder ==
    /\ sIn # <<>> /\ sOut = <<>>
    /\ Ran("send_order",
           <<Call(sIn[1].d.price, IF sIn[1].d.is_buy THEN "Buy" ELSE "Sell")>>)

StrategyNext ==
    S_PickOff \/ S_SellInventory \/ S_ProvideSpread \/ S_NoisyTrader \/ S_SendOrder

StrategySpec == StrategyInit /\ [][StrategyNext]_vars

----------------------------------------------------------------------------
(* The sleeps of the decision loop, over the configured frequency bounds.   *)

MaxFreq == 7
IdleQuantum == 1000

\* rng.gen_range(low..high): a value of the half-open range; the call panics on
\* an empty range
GenRange(low, high) ==
    IF low < high
    THEN {[panic |-> FALSE, d |-> d] : d \in low..(high - 1)}
    ELSE {[panic |-> TRUE, d |-> 0]}

CadenceInit ==
    /\ \E lo \in 0..MaxFreq, hi \in 0..MaxFreq :
        sIn = <<[lower_frequency |-> lo, higher_frequency |-> hi]>>
    /\ sOut = <<>>
    /\ variant = "cadence"
    /\ name = "Seller"
    /\ dpc = "none"
    /\ AgentInit

Slept(kind, o) ==
    /\ sOut = <<>>
    /\ sOut' = <<[kind |-> kind, panic |-> o.panic, d |-> o.d]>>
    /\ UNCHANGED <<agentVars, variant, name, sIn, chan, bus, lagged, busClosed>>

\* the iteration that found the gate Idle: sleep(Duration::from_secs(1))
S_IdleSleep == Slept("idle", [panic |-> FALSE, d |-> IdleQuantum])

\* the iteration that ran its strategy:
\* sleep(Duration::from_millis(rng.gen_range(lower_frequency..higher_frequency)))
S_Sleep ==
    \E o \in GenRange(sIn[1].lower_frequency, sIn[1].higher_frequency) :
        Slept("trading", o)

CadenceNext == S_IdleSleep \/ S_Sleep

CadenceSpec == CadenceInit /\ [][CadenceNext]_vars

----------------------------------------------------------------------------
(* The two event loops side by side: what each makes of the same events in  *)
(* its inventory, trade history and gate.                                   *)

MaxEvents == 3

HandlerInit ==
    [inventory |-> InventoryNew, trades |-> <<>>, trading |-> FALSE, panicked |-> FALSE]

\* the match on one received event; gated: the arm of Update starts with the
\* gate check (event_driven.rs), or does not (listen_to_events)
Handled(st, e, self_name, gated) ==
    IF st.panicked THEN st
    ELSE IF e.type = "Update"
    THEN IF gated /\ BacksOff(st.trading) THEN st
         ELSE IF e.trade # <<>>
         THEN [st EXCEPT !.trades = Append(@, e.trade[1]),
                         !.inventory = ApplyTrade(@, e.trade[1], self_name)]
         ELSE st
    ELSE IF e.type = "DealCards"
    THEN IF e.entry = <<>> THEN [st EXCEPT !.panicked = TRUE]
         ELSE [st EXCEPT !.inventory = DealtInventory(e.entry), !.trading = TRUE]
    ELSE [st EXCEPT !.trading = FALSE]

ReactiveHandled(st, e, self_name) == Handled(st, e, self_name, TRUE)
ListenerHandled(st, e, self_name) == Handled(st, e, self_name, FALSE)

EquivInit ==
    /\ sIn = <<>>
    /\ sOut = <<HandlerInit, HandlerInit>>
    /\ variant = "equiv"
    /\ name \in {"PickOff", "Seller"}
    /\ dpc = "none"
    /\ AgentInit

\* a Trade names the agent as seller only of a card both loops see it hold
E_Deliver ==
    /\ Len(sIn) < MaxEvents
    /\ \E e \in EventSet(name) :
        /\ (e.type = "Update" /\ e.trade # <<>> /\ e.trade[1].seller = name)
            => /\ sOut[1].inventory[e.trade[1].card] > 0
               /\ sOut[2].inventory[e.trade[1].card] > 0
        /\ sIn' = Append(sIn, e)
        /\ sOut' = <<ReactiveHandled(sOut[1], e, name), ListenerHandled(sOut[2], e, name)>>
    /\ UNCHANGED <<agentVars, variant, name, chan, bus, lagged, busClosed>>

EquivSpec == EquivInit /\ [][E_Deliver]_vars

----------------------------------------------------------------------------
(* Properties *)

\* a step that puts an order on the egress channel
Sends == Len(chan') > Len(chan)

\* the inventory a Trade should leave: +1 for the buyer, -1 for the seller, both
\* for an agent named as both
Traded(inv, t, self_name) ==
    [c \in Cards |->
        inv[c] + (IF t.card = c /\ t.buyer = self_name THEN 1 ELSE 0)
               - (IF t.card = c /\ t.seller = self_name THEN 1 ELSE 0)]

\* C1: an iteration of either loop that read the gate as Idle sends no order:
\* every send belongs to an iteration whose gate read was Trading.
C1_IdleReadSendsNothing == [][Sends => trading_flag]_vars

\* C1 witness: the decision loop backs off on an Idle gate although it holds
\* spades and the spade book has an ask its strategy would undercut.
C1_BackedOffWithWork ==
    /\ Polling /\ dpc = "idle_sleep" /\ ~trading_flag /\ ~trading
    /\ inventory["Spade"] > 0 /\ books["Spade"].ask.price > 7
    /\ pending = <<>> /\ chan = <<>>

\* C2: while the gate is Idle the polling agent sends no order, the iteration
\* already past its gate check included.
C2_NoSendWhileIdle == [][(Polling /\ ~trading) => ~Sends]_vars

\* the reactive loop's step that processes a DealCards with an entry
R_DealStep ==
    /\ Reactive /\ lpc = "recv" /\ ~lagged /\ bus # <<>> /\ Head(bus) = "DealCards"
    /\ bus' = Tail(bus) /\ ~lagged' /\ lpc' = "recv"

\* the listener's step that completes a DealCards
L_DealStep == Polling /\ lpc = "deal_timer" /\ lpc' = "recv"

\* C3: when the processing of a DealCards with an entry for the agent completes,
\* the inventory is exactly a dealt value (the event's own, for the listener),
\* the timer is reset and the gate is Trading.
C3_DealReplaces ==
    [][/\ R_DealStep => (inventory' \in DealSet /\ elapsed' = 0 /\ trading')
       /\ L_DealStep => (inventory' = ev[1].entry[1] /\ elapsed' = 0 /\ trading')]_vars

\* C3 witness: a DealCards has been processed after a Trade made the agent a
\* buyer, and the inventory is the dealt value with nothing of the purchase.
C3_DealtAfterTrade ==
    /\ lpc = "recv" /\ ev = <<>> /\ trading /\ elapsed = 0
    /\ inventory \in DealSet
    /\ trades # <<>> /\ trades[1].buyer = name /\ trades[1].seller # name

\* C4: while an EndRound waits in the subscription of a running event loop, the
\* loop can take a step of its own: it is never left waiting on the environment.
C4_EndRoundNeverBlocked ==
    (bus # <<>> /\ Head(bus) = "EndRound" /\ ~Panicked(lpc))
        => ENABLED (ReactiveLoop \/ Listener)

\* C5: a handler that applies the Trade of an Update leaves the inventory at
\* +1 for the buyer and -1 for the seller on the traded card (both, if the
\* agent is both) and leaves the other cards alone.
C5_TradeMovesOne ==
    [][/\ (Reactive /\ Len(trades') = Len(trades) + 1)
            => inventory' = Traded(inventory, trades'[Len(trades')], name)
       /\ (Polling /\ lpc = "update_inventory" /\ lpc' # lpc)
            => inventory' = Traded(inventory, ev[1].trade[1], name)]_vars

\* C6: no order a strategy hands over crosses a quote the agent owns: no Buy at
\* or above its own ask, no Sell at or below its own bid.
C6_NoSelfTrade ==
    sOut # <<>> =>
        \A i \in 1..Len(sOut[1]) :
            LET o == sOut[1][i]
                b == sIn[1].book
            IN /\ ~(o.direction = "Buy" /\ b.ask.player_name = o.player_name
                    /\ o.price >= b.ask.price)
               /\ ~(o.direction = "Sell" /\ b.bid.player_name = o.player_name
                    /\ o.price <= b.bid.price)

\* C7: an Update received on an Idle gate whose Trade names the agent on one
\* side is applied to the inventory and the trade history.
C7_IdleTradeApplied ==
    [][/\ (Reactive /\ lpc = "recv" /\ lpc' = "idle_sleep" /\ ev'[1].trade # <<>>
           /\ ev'[1].trade[1].buyer # ev'[1].trade[1].seller)
            => /\ inventory' = Traded(inventory, ev'[1].trade[1], name)
               /\ trades' = Append(trades, ev'[1].trade[1])
       /\ (Polling /\ ~trading /\ lpc = "update_inventory" /\ lpc' # lpc
           /\ ev[1].trade[1].buyer # ev[1].trade[1].seller)
            => /\ inventory' = Traded(inventory, ev[1].trade[1], name)
               /\ trades[Len(trades)] = ev[1].trade[1]]_vars

\* C8: the step in which the event loop takes a gap report leaves it running.
C8_LagNonFatal == [][(lagged /\ ~lagged') => ~Panicked(lpc')]_vars

\* C9: once a DealCards without an entry has ended the event loop, the agent
\* applies nothing more and sends nothing more.
C9_MissingEntryStopsAgent ==
    [][lpc = "panic_no_inventory"
        => (~Sends /\ UNCHANGED <<inventory, trades, books, trading>>)]_vars

\* C10: an event loop waiting at recv on a closed, drained bus can take a step
\* that leaves recv.
C10_ClosedLoopExits ==
    (busClosed /\ bus = <<>> /\ ~lagged /\ lpc = "recv")
        => ENABLED <<ReactiveLoop \/ R_RecvClosed \/ Listener \/ L_RecvClosed>>_lpc

\* C11: an agent loop that has an order to hand over while the egress channel is
\* full can take a step of its own: it does not wait for room in the channel.
C11_FullChannelNeverStalls ==
    /\ (Reactive /\ lpc = "send" /\ Len(chan) >= ChanCap) => ENABLED ReactiveLoop
    /\ (Polling /\ dpc = "send" /\ Len(chan) >= ChanCap) => ENABLED DecisionLoop

\* C12: the sleep that ends a decision iteration is taken, and lasts at least
\* the 1 s quantum after an Idle gate and a time within [lower_frequency,
\* higher_frequency) after a strategy run, whatever the configured bounds.
C12_SleepWithinBounds ==
    sOut # <<>> =>
        /\ ~sOut[1].panic
        /\ sOut[1].kind = "idle" => sOut[1].d >= IdleQuantum
        /\ sOut[1].kind = "trading" =>
            /\ sIn[1].lower_frequency <= sOut[1].d
            /\ sOut[1].d < sIn[1].higher_frequency

\* C13: every order send_order enqueues comes from one of the calls made, with
\* that call's price and direction, the agent's identity and the card given, and
\* improves the book given: a Buy above the bid, a Sell below the ask.
C13_OrderImprovesBook ==
    sOut # <<>> =>
        \A i \in 1..Len(sOut[1]) :
            LET o == sOut[1][i]
                b == sIn[1].book
            IN /\ o.player_name = sIn[1].name
               /\ o.card = CardSeq[sIn[1].d.r]
               /\ \E j \in 1..Len(sOut[2]) : sOut[2][j] = Call(o.price, o.direction)
               /\ \/ o.direction = "Buy" /\ o.price > b.bid.price
                  \/ o.direction = "Sell" /\ o.price < b.ask.price

\* C13 witness: a bare send_order call for a diamond Buy at 4 over a standing
\* bid of 2 was enqueued.
C13_BuyEnqueued ==
    /\ sOut # <<>> /\ sOut[3] = "send_order"
    /\ sIn[1].book.bid.price = 2
    /\ sOut[1] = <<MkOrder(sIn[1].name, 4, "Buy", "Diamond")>>

\* C14: a strategy hands over a Sell order for a card only when the holding of
\* that card it was given is above 0.
C14_SellsOnlyHeld ==
    (sOut # <<>> /\ sOut[3] # "send_order") =>
        \A i \in 1..Len(sOut[1]) :
            sOut[1][i].direction = "Sell" => sIn[1].inv > 0

\* C15: sell_inventory with a holding above 0 hands over exactly one order, Sell
\* at ask - 1, when the ask is not the agent's own and is above 7 with more than
\* 30 seconds left, or above 4 with 30 seconds or fewer; otherwise no order.
C15_SellerLiquidates ==
    (sOut # <<>> /\ sOut[3] = "sell_inventory") =>
        LET i == sIn[1]
            due == /\ i.inv > 0
                   /\ i.book.ask.player_name # i.name
                   /\ IF i.seconds_left > 30
                      THEN i.book.ask.price > 7 ELSE i.book.ask.price > 4
        IN sOut[1] = IF due
                     THEN <<MkOrder(i.name, i.book.ask.price - 1, "Sell",
                                    CardSeq[i.d.r])>>
                     ELSE <<>>

\* C15 witness: the Seller holding 3 spades, 200 seconds left, a spade ask of 8
\* by another player: Sell spade at 7.
C15_ScenarioA ==
    /\ sOut # <<>> /\ sOut[3] = "sell_inventory"
    /\ sIn[1].inv = 3 /\ sIn[1].seconds_left = 200
    /\ sIn[1].book.ask = Quote(8, Other)
    /\ sOut[1] = <<MkOrder("Seller", 7, "Sell", "Spade")>>

\* the listener's positions at a lock().await
ListenerLockWaits ==
    {"update_inventory", "deal_timer"} \cup {"update_" \o CardSeq[i] : i \in 1..4}

\* C16: no task of the polling agent holds two cell locks at once, and none
\* holds a lock while it waits for a bus event or for another lock.
C16_OneLockNoneAcrossAwait ==
    Polling =>
        /\ Cardinality(held) <= 1
        /\ lpc \in ListenerLockWaits \cup {"recv"} => held = {}

\* the books a cell can hold whole: the initial book and the card's book of
\* each Update
WholeBooks(c) == {BookNew} \cup {s[c] : s \in SnapshotSet(name)}

\* the Update the listener is applying in a step
AppliedUpdate == IF ev # <<>> THEN ev[1] ELSE ev'[1]

\* C17: every book cell and every book the decision loop has copied is a whole
\* book, initial or of one Update; a cell changes only to the book the Update
\* being applied carries for it, and a copy is the cell's value when it is taken.
C17_WholeBookPerCell ==
    /\ [](Polling =>
            \A c \in Cards :
                books[c] \in WholeBooks(c) /\ snap.books[c] \in WholeBooks(c))
    /\ [][Polling =>
            \A c \in Cards :
                /\ books'[c] # books[c] => books'[c] = AppliedUpdate.books[c]
                /\ snap'.books[c] # snap.books[c] =>
                        (snap' = SnapNew \/ snap'.books[c] = books[c])]_vars

\* C17 witness: the decision loop holds a copy of the spade book of one Update
\* while the cell already holds the whole spade book of the next.
C17_CopyOfEarlierUpdate ==
    /\ Polling /\ dpc \in {"Club", "Diamond", "Heart"}
    /\ snap.books["Spade"] = SnapshotB(name)["Spade"]
    /\ books["Spade"] = SnapshotA(name)["Spade"]

\* C18: after each event of a sequence given to both loops, the reactive loop
\* and the listener have the same inventory, trade history and gate.
C18_LoopsAgree == sOut[1] = sOut[2]

\* the orders of one instrument among the orders q, in order
OrdersFor(c, q) == SelectSeq(q, LAMBDA o : o.card = c)

\* what one run of pick_off on instrument c submits, given the seconds left,
\* the holdings inv and the books bks
OnePickOff(sl, inv, bks, c) == OrdersOf(name, PickOff(sl, inv[c], bks[c]), c, bks[c])

\* C19: per received event the reactive loop submits a bounded number of
\* orders: an order leaves only while the loop handles an Update received on
\* a Trading gate, DealCards, EndRound and an Update on an Idle gate queue
\* nothing, and the orders of one Update are, instrument by instrument in the
\* order spades, clubs, diamonds, hearts, those of one pick_off run on the
\* book carried by that Update: at most 3 per instrument, at most 12 in all.
C19_BoundedReaction ==
    /\ [](Reactive =>
            /\ Len(pending) <= 12
            /\ \A c \in Cards : Len(OrdersFor(c, pending)) <= 3
            /\ pending # <<>> => (lpc = "send" /\ trading /\ ev # <<>>
                                    /\ ev[1].type = "Update"))
    /\ [][Reactive =>
            /\ Sends => (lpc = "send" /\ chan' = Append(chan, Head(pending))
                            /\ pending' = Tail(pending))
            /\ (pending' # pending /\ ~Sends) =>
                    /\ lpc = "recv" /\ Head(bus) = "Update" /\ trading
                    /\ pending = <<>>
                    /\ \E o \in SecondsLeftOutcomes(elapsed * TickSecs) :
                        /\ ~o.panic
                        /\ pending' =
                              OnePickOff(o.seconds_left, inventory', ev'[1].books, CardSeq[1])
                           \o OnePickOff(o.seconds_left, inventory', ev'[1].books, CardSeq[2])
                           \o OnePickOff(o.seconds_left, inventory', ev'[1].books, CardSeq[3])
                           \o OnePickOff(o.seconds_left, inventory', ev'[1].books, CardSeq[4])
            /\ (lpc = "recv" /\ bus # <<>> /\ ~lagged
                    /\ (Head(bus) # "Update" \/ BacksOff(trading)))
                    => (pending' = <<>> /\ ~Sends)]_vars

\* an Update received on a Trading gate made pick_off submit two orders for
\* one instrument, of which the first has left
C19_TwoOrdersOneInstrument ==
    /\ Reactive /\ lpc = "send"
    /\ Len(pending) = 1 /\ chan # <<>>
    /\ chan[Len(chan)].card = pending[1].card
    /\ chan[Len(chan)] # pending[1]

\* the positions where the decision loop awaits a cell lock, and the lock
DecisionLockWaits == {"timer", "inventory"} \cup Cards

\* C20: the two tasks of the polling agent never block each other: the
\* listener holds locks only inside a lock section, where its next step (the
\* next acquisition, then the release) is always possible, and the decision
\* loop, which holds no lock between steps, finds its lock free or held by a
\* listener that can proceed; no state has both tasks waiting on a lock.
C20_NoLockDeadlock ==
    Polling =>
        /\ held # {} => lpc \in ListenerLockWaits
        /\ lpc \in ListenerLockWaits => ENABLED Listener
        /\ dpc \in DecisionLockWaits =>
                /\ ENABLED DecisionLoop \/ ENABLED Listener
                /\ ~ENABLED DecisionLoop => (dpc \in held /\ lpc \in ListenerLockWaits)

\* the decision loop waits for the inventory lock while the listener, in the
\* DealCards arm, holds it and is about to take the timer lock
C20_DecisionWaitsOnListener ==
    /\ Polling /\ dpc = "inventory" /\ "inventory" \in held
    /\ lpc = "deal_timer"
    /\ ~ENABLED DecisionLoop

\* a step that evaluates `240 - timer.elapsed().as_secs()`: the timer read of
\* a decision iteration, or the reactive arm of an Update on a Trading gate
ComputesSecondsLeft ==
    \/ Polling /\ dpc = "timer" /\ dpc' # "timer"
    \/ Reactive /\ lpc = "recv" /\ ~lagged /\ bus # <<>> /\ Head(bus) = "Update"
         /\ trading /\ Len(bus') < Len(bus)

\* C21: seconds_left never underflows: at every computation the timer shows
\* at most 240 whole seconds, and in the polling agent the timer is never
\* read between the gate store and the timer reset of a DealCards.
C21_SecondsLeftDefined ==
    [][ComputesSecondsLeft =>
            /\ elapsed * TickSecs <= RoundSecs
            /\ Polling => lpc # "deal_timer"]_vars

====
